---- MODULE Spec2Model ----
(***************************************************************************)
(* A model of defcon (src/main.rs): the edit-summary classifier, the rate  *)
(* estimator, the rate-to-level mapping and the run that reconciles the    *)
(* published level with the freshly computed one.                          *)
(*                                                                         *)
(* Text is a sequence of one-character strings.  An f32 is a record        *)
(* [m, e] standing for m / 2^e with a 24-bit significand m (or m = 0).     *)
(***************************************************************************)
EXTENDS Integers, Sequences, FiniteSets, TLC

VARIABLES
    pc,            \* position of the running function
    edit_summary,  \* is_revert_of_vandalism: its argument
    normalized,    \* is_revert_of_vandalism: the shadowed, normalised edit_summary
    verdict,       \* is_revert_of_vandalism: its return value
    num_reverts,   \* reverts_per_minute: the folded count
    rpm,           \* the f32 rate
    level,         \* rpm_to_level(rpm)
    cfg,           \* the configuration the sources provide
    wiki,          \* the status page as the wiki holds it
    revid,         \* main: revision id captured by the page fetch
    curr_text,     \* main: content captured by the page fetch
    curr_level,    \* main: level parsed from curr_text
    rc,            \* the recent-changes responses folded so far
    post,          \* main: the edit request it sent
    reply,         \* the wiki's reply to that request
    calls,         \* network operations started in this run
    result,        \* how the run ended
    run,           \* number of the current run
    hist           \* bookkeeping over all runs

clsVars == <<edit_summary, normalized, verdict>>

rateVars == <<num_reverts, rpm, level>>

runVars ==
    <<cfg, wiki, revid, curr_text, curr_level, rc, post, reply, calls, result, run, hist>>

vars == <<pc, clsVars, rateVars, runVars>>

-----------------------------------------------------------------------------
(* Text helpers.                                                            *)

RECURSIVE Concat(_)
Concat(ss) == IF ss = <<>> THEN <<>> ELSE Head(ss) \o Concat(Tail(ss))

\* str::contains at a given position: pat occurs in s starting at index i.
OccursAt(s, pat, i) ==
    /\ i >= 1
    /\ i + Len(pat) - 1 <= Len(s)
    /\ \A k \in 1..Len(pat) : s[i + k - 1] = pat[k]

\* str::contains
Contains(s, pat) == \E i \in 1..(Len(s) + 1) : OccursAt(s, pat, i)

UpperCase ==
    << "A","B","C","D","E","F","G","H","I","J","K","L","M",
       "N","O","P","Q","R","S","T","U","V","W","X","Y","Z" >>

LowerCase ==
    << "a","b","c","d","e","f","g","h","i","j","k","l","m",
       "n","o","p","q","r","s","t","u","v","w","x","y","z" >>

\* str::to_ascii_lowercase: ASCII upper-case letters fold, all else is kept.
to_ascii_lowercase(s) ==
    [i \in 1..Len(s) |->
        IF \E k \in 1..26 : UpperCase[k] = s[i]
        THEN LowerCase[CHOOSE k \in 1..26 : UpperCase[k] = s[i]]
        ELSE s[i]]

-----------------------------------------------------------------------------
(* The keyword lists.                                                       *)

VANDALISM_KEYWORDS ==
    << <<"r","e","v","e","r","t">>,
       <<"r","v"," ">>,
       <<"l","o","n","g","-","t","e","r","m"," ","a","b","u","s","e">>,
       <<"l","o","n","g"," ","t","e","r","m"," ","a","b","u","s","e">>,
       <<"l","t","a">>,
       <<"a","b","u","s","e">>,
       <<"r","v","v"," ">>,
       <<"u","n","d","i","d">> >>

NOT_VANDALISM_KEYWORDS ==
    << <<"u","a","a">>,
       <<"g","o","o","d"," ","f","a","i","t","h">>,
       <<"a","g","f">>,
       <<"u","n","s","o","u","r","c","e","d">>,
       <<"u","n","r","e","f","e","r","e","n","c","e","d">>,
       <<"s","e","l","f">>,
       <<"s","p","e","c","u","l","a","t">>,
       <<"o","r","i","g","i","n","a","l"," ","r","e","s","e","a","r","c","h">>,
       <<"r","v"," ","t","a","g">>,
       <<"t","y","p","o">>,
       <<"i","n","c","o","r","r","e","c","t">>,
       <<"f","o","r","m","a","t">> >>

INTERVAL_IN_MINS == 60

-----------------------------------------------------------------------------
(* SECTION_HEADER_RE = /\*[\s\S]+?\*/ and Regex::replace.                   *)

SlashStar == <<"/", "*">>

StarSlash == <<"*", "/">>

\* The end (index of the closing "/") of the lazy match starting at i, or 0:
\* "/*", then at least one character, then the nearest "*/".
SectionHeaderEnd(s, i) ==
    IF /\ OccursAt(s, SlashStar, i)
       /\ \E j \in (i + 3)..Len(s) : OccursAt(s, StarSlash, j)
    THEN 1 + CHOOSE j \in (i + 3)..Len(s) :
                /\ OccursAt(s, StarSlash, j)
                /\ \A j2 \in (i + 3)..(j - 1) : ~OccursAt(s, StarSlash, j2)
    ELSE 0

\* Regex::find: the start of the leftmost match, or 0.
SectionHeaderStart(s) ==
    IF \E i \in 1..Len(s) : SectionHeaderEnd(s, i) > 0
    THEN CHOOSE i \in 1..Len(s) :
            /\ SectionHeaderEnd(s, i) > 0
            /\ \A i2 \in 1..(i - 1) : SectionHeaderEnd(s, i2) = 0
    ELSE 0

\* Regex::replace(s, ""): the FIRST match is removed, the rest is kept as is.
ReplaceSectionHeader(s) ==
    LET i == SectionHeaderStart(s)
    IN  IF i = 0 THEN s
        ELSE SubSeq(s, 1, i - 1) \o SubSeq(s, SectionHeaderEnd(s, i) + 1, Len(s))

Normalize(s) == to_ascii_lowercase(ReplaceSectionHeader(s))

ContainsAny(s, kwds) == \E k \in 1..Len(kwds) : Contains(s, kwds[k])

\* The two tests in the other order.
KeywordDecisionVandalismFirst(s) ==
    IF ContainsAny(s, VANDALISM_KEYWORDS)
    THEN TRUE
    ELSE FALSE

\* The keyword decision on the normalised summary, in the code's order.
KeywordDecision(s) ==
    IF ContainsAny(s, NOT_VANDALISM_KEYWORDS)
    THEN FALSE
    ELSE ContainsAny(s, VANDALISM_KEYWORDS)

is_revert_of_vandalism(s) == KeywordDecision(Normalize(s))

-----------------------------------------------------------------------------
(* f32 arithmetic.  [m |-> m, e |-> e] is the value m / 2^e; a non-zero    *)
(* value has 2^23 <= m < 2^24.  All intermediate products stay below 2^31. *)

RECURSIVE Pow2(_)
Pow2(e) == IF e = 0 THEN 1 ELSE 2 * Pow2(e - 1)

\* x / d rounded to the nearest integer, ties to even.
RoundHalfEven(x, d) ==
    LET q == x \div d
        r == x % d
    IN  IF 2 * r > d \/ (2 * r = d /\ q % 2 = 1) THEN q + 1 ELSE q

\* The least e with n * 2^e >= d * 2^23, together with n * 2^e.
RECURSIVE ScaleUp(_, _, _)
ScaleUp(x, e, d) ==
    IF x >= d * Pow2(23) THEN [x |-> x, e |-> e] ELSE ScaleUp(2 * x, e + 1, d)

\* (n as f32) / (d as f32): both casts are exact below 2^24, and the IEEE
\* quotient is the exact quotient rounded to 24 significant bits.
F32Div(n, d) ==
    IF n = 0 THEN [m |-> 0, e |-> 0]
    ELSE LET sc == ScaleUp(n, 0, d)
             q  == RoundHalfEven(sc.x, d)
         IN  IF q = Pow2(24)
             THEN [m |-> Pow2(23), e |-> sc.e - 1]
             ELSE [m |-> q, e |-> sc.e]

\* f <= k, for an f32 f and a small integer literal k (2.0, 4.0, ...).
F32Le(f, k) ==
    LET q == f.m \div Pow2(f.e)
        r == f.m % Pow2(f.e)
    IN  q < k \/ (q = k /\ r = 0)

\* f < k.
F32Lt(f, k) == f.m \div Pow2(f.e) < k

\* Strict comparisons at the breakpoints.
rpm_to_level_strict(r) ==
    IF F32Lt(r, 2) THEN 5
    ELSE IF F32Lt(r, 4) THEN 4
    ELSE IF F32Lt(r, 6) THEN 3
    ELSE IF F32Lt(r, 8) THEN 2
    ELSE 1

rpm_to_level(r) ==
    IF F32Le(r, 2) THEN 5
    ELSE IF F32Le(r, 4) THEN 4
    ELSE IF F32Le(r, 6) THEN 3
    ELSE IF F32Le(r, 8) THEN 2
    ELSE 1

-----------------------------------------------------------------------------
(* The published text: what main writes (lines 146-153) and how it reads  *)
(* the level back (LEVEL_RE = level\s*=\s*(\d+), lines 135-139).            *)

DecimalDigits == <<"0","1","2","3","4","5","6","7","8","9">>

IsDigit(c) == \E k \in 1..10 : DecimalDigits[k] = c

DigitValue(c) == (CHOOSE k \in 1..10 : DecimalDigits[k] = c) - 1

IsSpace(c) == c \in {" ", "\n", "\t"}

\* Display for an unsigned integer.
RECURSIVE Decimal(_)
Decimal(n) ==
    IF n < 10 THEN <<DecimalDigits[n + 1]>>
    ELSE Decimal(n \div 10) \o <<DecimalDigits[(n % 10) + 1]>>

\* format!("{:.2}", f) for an f32 f >= 0: the exact value rounded to
\* hundredths, ties to even.
FormatRpm(f) ==
    LET cents == RoundHalfEven(f.m * 100, Pow2(f.e))
        frac  == cents % 100
    IN  Decimal(cents \div 100) \o <<".">> \o
        <<DecimalDigits[(frac \div 10) + 1], DecimalDigits[(frac % 10) + 1]>>

TextBeforeLevel ==
    << "{","{","#","s","w","i","t","c","h",":"," ","{","{","{","1","}",
       "}","}","\n"," "," "," "," "," "," "," "," "," "," "," "," "," ",
       " ","|"," ","l","e","v","e","l"," ","="," " >>

TextBeforeRpm ==
    << "\n"," "," "," "," "," "," "," "," "," "," "," "," "," "," ","|",
       " ","s","i","g","n"," ","="," ","~","~","~","~","~","\n"," "," ",
       " "," "," "," "," "," "," "," "," "," "," "," ","|"," ","i","n",
       "f","o"," ","="," " >>

TextAfterRpm ==
    << " ","R","P","M"," ","a","c","c","o","r","d","i","n","g"," ","t",
       "o"," ","[","[","U","s","e","r",":","D","e","a","d","b","e","e",
       "f","B","o","t","|","D","e","a","d","b","e","e","f","B","o","t",
       "]","]","\n"," "," "," "," "," "," "," "," "," "," "," "," ","}",
       "}" >>

\* The two arguments in the other order.
FormatTextArgumentsSwapped(lvl, r) ==
    TextBeforeLevel \o FormatRpm(r) \o TextBeforeRpm \o Decimal(lvl) \o TextAfterRpm

\* The format! of lines 146-153; its arguments are (level, rpm).
FormatText(lvl, r) ==
    TextBeforeLevel \o Decimal(lvl) \o TextBeforeRpm \o FormatRpm(r) \o TextAfterRpm

LevelWord == <<"l","e","v","e","l">>

\* The first index >= i of s that holds no whitespace (Len(s) + 1 if none).
RECURSIVE SkipSpaces(_, _)
SkipSpaces(s, i) ==
    IF i <= Len(s) /\ IsSpace(s[i]) THEN SkipSpaces(s, i + 1) ELSE i

\* The first index >= i of s that holds no digit (Len(s) + 1 if none).
RECURSIVE SkipDigits(_, _)
SkipDigits(s, i) ==
    IF i <= Len(s) /\ IsDigit(s[i]) THEN SkipDigits(s, i + 1) ELSE i

\* Capture group 1 of a LEVEL_RE match starting at i, or <<>> if none starts
\* there.  The three classes are disjoint, so greedy matching never backtracks.
LevelMatchAt(s, i) ==
    IF ~OccursAt(s, LevelWord, i) THEN <<>>
    ELSE LET eq == SkipSpaces(s, i + 5)
         IN  IF eq > Len(s) \/ s[eq] # "=" THEN <<>>
             ELSE LET d == SkipSpaces(s, eq + 1)
                  IN  SubSeq(s, d, SkipDigits(s, d) - 1)

\* Group 1 of the leftmost match that starts at i or later, or <<>>.
RECURSIVE LevelCapturesFrom(_, _)
LevelCapturesFrom(s, i) ==
    IF i > Len(s) THEN <<>>
    ELSE IF LevelMatchAt(s, i) # <<>> THEN LevelMatchAt(s, i)
    ELSE LevelCapturesFrom(s, i + 1)

\* LEVEL_RE.captures(s): group 1 of the leftmost match, or <<>> (None).
LevelCaptures(s) == LevelCapturesFrom(s, 1)

\* str::parse::<u8>: the value, or 256 for any value that does not fit.
RECURSIVE ParseU8From(_, _)
ParseU8From(ds, acc) ==
    IF ds = <<>> THEN acc
    ELSE IF acc * 10 + DigitValue(Head(ds)) > 255 THEN 256
    ELSE ParseU8From(Tail(ds), acc * 10 + DigitValue(Head(ds)))

ParseU8(ds) == ParseU8From(ds, 0)

-----------------------------------------------------------------------------
(* Values of the locals before they are assigned.                           *)

NoText == <<"?">>

NoRate == [m |-> 0, e |-> 0]

-----------------------------------------------------------------------------
(* The tail of reverts_per_minute and the level mapping.                     *)

\* reverts_per_minute, line 90: the folded count becomes the rate.
Divide ==
    /\ pc = "rate_folded"
    /\ rpm' = F32Div(num_reverts, INTERVAL_IN_MINS)
    /\ pc' = "rate_done"
    /\ UNCHANGED <<clsVars, num_reverts, level, runVars>>

\* main, line 143.
MapLevel ==
    /\ pc = "rate_done"
    /\ level' = rpm_to_level(rpm)
    /\ pc' = "level_done"
    /\ UNCHANGED <<clsVars, num_reverts, rpm, runVars>>

-----------------------------------------------------------------------------
(* The run: main (lines 108-171) against the wiki.                          *)

MaxPages == 2

MaxExternalEdits == 1

MaxRuns == 2

\* Values of the locals before they are assigned.
NoPost == [sent |-> FALSE]

NoReply == [status |-> "none", api |-> "none"]

NoCalls == [login |-> 0, page |-> 0, rc |-> 0, token |-> 0, submit |-> 0]

NoRc == [pages |-> <<>>, more |-> TRUE]

NoHist == [writes |-> 0, changes |-> 0, lastLevel |-> 0, written |-> 0, external |-> 0]

\* What the configuration sources may provide.
Configs == [sources : BOOLEAN, oauth_token : BOOLEAN, report_page : BOOLEAN]

\* Contents the status page may hold that the bot did not write.
PageContents ==
    { <<"D","E","F","C","O","N">>,
      <<"l","e","v","e","l"," ","="," ","3">>,
      <<"l","e","v","e","l","=","5">>,
      <<"x","l","e","v","e","l",":","1"," ","l","e","v","e","l","\n","="," ","0","4">>,
      <<"l","e","v","e","l"," ","="," ","3","0","0">> }

NoPage == [exists |-> FALSE, content |-> <<>>, revid |-> 0]

Wikis == {NoPage} \cup { [exists |-> TRUE, content |-> c, revid |-> 1] : c \in PageContents }

\* Edit summaries of the recent changes, and the pages of them a response holds.
RevertComment == <<"R","V"," ","v">>

HeaderedComment == <<"/","*"," ","t","y","p","o"," ","*","/"," ","U","n","d","i","d">>

OtherComment == <<"R","V"," ","t","y","p","o">>

Comments == {RevertComment, HeaderedComment, OtherComment}

\* A response holds each comment some number of times.
RcPages ==
    { [c \in Comments |->
          IF c = RevertComment THEN m[1]
          ELSE IF c = HeaderedComment THEN m[2] ELSE 7] :
      m \in {<<130, 0>>, <<120, 130>>} }

RECURSIVE SumCopies(_, _)
SumCopies(S, page) ==
    IF S = {} THEN 0
    ELSE LET c == CHOOSE x \in S : TRUE
         IN  page[c] + SumCopies(S \ {c}, page)

\* Lines 81-86: the number of edits of one response whose comment is a revert
\* of vandalism.
CountReverts(page) ==
    SumCopies({c \in DOMAIN page : is_revert_of_vandalism(c)}, page)

\* A step that keeps the last count only.
FoldStepKeepsLast(x, y) == y

\* Line 88: the fold's step.
FoldStep(x, y) == x + y

Fail(kind) ==
    /\ pc' = "done"
    /\ result' = kind

\* Lines 109-112: the configuration is built from its sources.
BuildConfig ==
    /\ pc = "start"
    /\ IF cfg.sources
       THEN pc' = "config_built" /\ UNCHANGED result
       ELSE Fail("ConfigurationError")
    /\ UNCHANGED <<clsVars, rateVars, cfg, wiki, revid, curr_text, curr_level, rc,
                   post, reply, calls, run, hist>>

\* Line 113.
GetOauthToken ==
    /\ pc = "config_built"
    /\ IF cfg.oauth_token
       THEN pc' = "have_oauth_token" /\ UNCHANGED result
       ELSE Fail("ConfigurationError")
    /\ UNCHANGED <<clsVars, rateVars, cfg, wiki, revid, curr_text, curr_level, rc,
                   post, reply, calls, run, hist>>

\* Lines 115-117: login_oauth, which may fail.
Login ==
    /\ pc = "have_oauth_token"
    /\ calls' = [calls EXCEPT !.login = @ + 1]
    /\ \/ pc' = "logged_in" /\ UNCHANGED result
       \/ Fail("LoginError")
    /\ UNCHANGED <<clsVars, rateVars, cfg, wiki, revid, curr_text, curr_level, rc,
                   post, reply, run, hist>>

\* Line 120.
GetReportPage ==
    /\ pc = "logged_in"
    /\ IF cfg.report_page
       THEN pc' = "have_report_page" /\ UNCHANGED result
       ELSE Fail("ConfigurationError")
    /\ UNCHANGED <<clsVars, rateVars, cfg, wiki, revid, curr_text, curr_level, rc,
                   post, reply, calls, run, hist>>

\* Lines 122-133: the page fetch and the two unwraps of its fields.
FetchPage ==
    /\ pc = "have_report_page"
    /\ calls' = [calls EXCEPT !.page = @ + 1]
    /\ \/ Fail("FetchError") /\ UNCHANGED <<revid, curr_text>>
       \/ /\ ~wiki.exists
          /\ Fail("MissingFieldPanic")
          /\ UNCHANGED <<revid, curr_text>>
       \/ /\ wiki.exists
          /\ revid' = wiki.revid
          /\ curr_text' = wiki.content
          /\ pc' = "revision_read"
          /\ UNCHANGED result
    /\ UNCHANGED <<clsVars, rateVars, cfg, wiki, curr_level, rc, post, reply, run, hist>>

\* Lines 135-139: the published level, 0 when the text holds none; the
\* unwrap of parse::<u8> panics on a number above 255.
ParseLevel ==
    /\ pc = "revision_read"
    /\ LET digits == LevelCaptures(curr_text)
       IN  IF digits = <<>>
           THEN curr_level' = 0 /\ pc' = "estimating" /\ UNCHANGED result
           ELSE IF ParseU8(digits) > 255
           THEN Fail("ParseLevelPanic") /\ UNCHANGED curr_level
           ELSE curr_level' = ParseU8(digits) /\ pc' = "estimating" /\ UNCHANGED result
    /\ UNCHANGED <<clsVars, rateVars, cfg, wiki, revid, curr_text, rc, post, reply,
                   calls, run, hist>>

\* Lines 79-89: one response of get_all is counted and folded; the wiki says
\* whether more follow.
FetchRc ==
    /\ pc = "estimating"
    /\ rc.more
    /\ Len(rc.pages) < MaxPages
    /\ calls' = [calls EXCEPT !.rc = @ + 1]
    /\ \E page \in RcPages, more \in BOOLEAN :
          /\ more => Len(rc.pages) + 1 < MaxPages
          /\ rc' = [pages |-> Append(rc.pages, page), more |-> more]
          /\ num_reverts' = FoldStep(num_reverts, CountReverts(page))
          /\ pc' = IF more THEN "estimating" ELSE "rate_folded"
    /\ UNCHANGED <<clsVars, rpm, level, cfg, wiki, revid, curr_text, curr_level, post,
                   reply, result, run, hist>>

\* A failed response is dropped and the count so far is used.
FetchRcFailureSwallowed ==
    /\ pc = "estimating"
    /\ rc.more
    /\ calls' = [calls EXCEPT !.rc = @ + 1]
    /\ pc' = "rate_folded"
    /\ UNCHANGED <<clsVars, rateVars, cfg, wiki, revid, curr_text, curr_level, rc, post,
                   reply, result, run, hist>>

\* Line 89: a response fails, and the ? returns the error.
FetchRcFails ==
    /\ pc = "estimating"
    /\ rc.more
    /\ calls' = [calls EXCEPT !.rc = @ + 1]
    /\ Fail("FetchError")
    /\ UNCHANGED <<clsVars, rateVars, cfg, wiki, revid, curr_text, curr_level, rc, post,
                   reply, run, hist>>

\* Line 88: the stream ends before it yielded anything; the fold returns 0.
RcStreamEmpty ==
    /\ pc = "estimating"
    /\ rc = NoRc
    /\ rc' = [pages |-> <<>>, more |-> FALSE]
    /\ pc' = "rate_folded"
    /\ UNCHANGED <<clsVars, rateVars, cfg, wiki, revid, curr_text, curr_level, post,
                   reply, calls, result, run, hist>>

\* The edit branch is taken whatever the two levels are.
CompareAlwaysEdits ==
    /\ pc = "level_done"
    /\ pc' = "editing"
    /\ hist' = [hist EXCEPT
                  !.changes = IF hist.lastLevel # 0 /\ hist.lastLevel # level
                              THEN @ + 1 ELSE @,
                  !.lastLevel = level]
    /\ UNCHANGED <<clsVars, rateVars, cfg, wiki, revid, curr_text, curr_level, rc, post,
                   reply, calls, result, run>>

\* Line 145, and the end of main on the else branch (lines 167-170).
Compare ==
    /\ pc = "level_done"
    /\ IF curr_level # level
       THEN pc' = "editing" /\ UNCHANGED result
       ELSE pc' = "done" /\ result' = "ok"
    /\ hist' = [hist EXCEPT
                  !.changes = IF hist.lastLevel # 0 /\ hist.lastLevel # level
                              THEN @ + 1 ELSE @,
                  !.lastLevel = level]
    /\ UNCHANGED <<clsVars, rateVars, cfg, wiki, revid, curr_text, curr_level, rc, post,
                   reply, calls, run>>

\* Line 156.
GetToken ==
    /\ pc = "editing"
    /\ calls' = [calls EXCEPT !.token = @ + 1]
    /\ \/ pc' = "have_csrf" /\ UNCHANGED result
       \/ Fail("FetchError")
    /\ UNCHANGED <<clsVars, rateVars, cfg, wiki, revid, curr_text, curr_level, rc, post,
                   reply, run, hist>>

\* The request carries the published level instead of the fresh one.
EditRequestStaleLevel ==
    [sent      |-> TRUE,
     text      |-> FormatText(curr_level, rpm),
     summary   |-> [level |-> curr_level, rpm |-> FormatRpm(rpm)],
     baserevid |-> revid]

\* The request of lines 146-164.
EditRequest ==
    [sent      |-> TRUE,
     text      |-> FormatText(level, rpm),
     summary   |-> [level |-> level, rpm |-> FormatRpm(rpm)],
     baserevid |-> revid]

\* What the wiki may answer to an edit whose base revision is base: a
\* transport failure, an HTTP error status, or an HTTP 200 whose body says
\* whether the edit was saved.  An edit on a stale base is not saved.
Replies(base) ==
    { [status |-> "transport_error", api |-> "none"],
      [status |-> "http_error", api |-> "none"] }
    \cup (IF wiki.revid = base
          THEN { [status |-> "http_ok", api |-> "success"] }
          ELSE { [status |-> "http_ok", api |-> "editconflict"],
                 [status |-> "http_error", api |-> "editconflict"] })

\* Line 166: send().await? and error_for_status()? decide; the body is dropped.
SubmitResult(r) == IF r.status = "http_ok" THEN "ok" ELSE "SubmitError"

\* Lines 157-166, and the end of main (line 170).
Submit ==
    /\ pc = "have_csrf"
    /\ calls' = [calls EXCEPT !.submit = @ + 1]
    /\ post' = EditRequest
    /\ \E r \in Replies(revid) :
          /\ reply' = r
          /\ result' = SubmitResult(r)
          /\ IF r.api = "success"
             THEN /\ wiki' = [exists |-> TRUE, content |-> EditRequest.text,
                              revid |-> wiki.revid + 1]
                  /\ hist' = [hist EXCEPT !.writes = @ + 1, !.written = level]
             ELSE UNCHANGED <<wiki, hist>>
    /\ pc' = "done"
    /\ UNCHANGED <<clsVars, rateVars, cfg, revid, curr_text, curr_level, rc, run>>

\* Someone else saves the status page.
ExternalEdit ==
    /\ hist.external < MaxExternalEdits
    /\ \E c \in PageContents :
          /\ c # wiki.content
          /\ wiki' = [exists |-> TRUE, content |-> c, revid |-> wiki.revid + 1]
    /\ hist' = [hist EXCEPT !.external = @ + 1, !.written = 0]
    /\ UNCHANGED <<pc, clsVars, rateVars, cfg, revid, curr_text, curr_level, rc, post,
                   reply, calls, result, run>>

\* The process is started again: every local is fresh, the wiki is kept.
NextRun ==
    /\ pc = "done"
    /\ run < MaxRuns
    /\ run' = run + 1
    /\ pc' = "start"
    /\ revid' = 0
    /\ curr_text' = NoText
    /\ curr_level' = 0
    /\ rc' = NoRc
    /\ post' = NoPost
    /\ reply' = NoReply
    /\ calls' = NoCalls
    /\ result' = "running"
    /\ num_reverts' = 0
    /\ rpm' = NoRate
    /\ level' = 0
    /\ UNCHANGED <<clsVars, cfg, wiki, hist>>

IdleRun ==
    /\ revid = 0
    /\ curr_text = NoText
    /\ curr_level = 0
    /\ rc = NoRc
    /\ post = NoPost
    /\ reply = NoReply
    /\ calls = NoCalls
    /\ result = "running"
    /\ run = 1
    /\ hist = NoHist

Init ==
    /\ pc = "start"
    /\ edit_summary = NoText
    /\ normalized = NoText
    /\ verdict = FALSE
    /\ num_reverts = 0
    /\ rpm = NoRate
    /\ level = 0
    /\ cfg \in Configs
    /\ wiki \in Wikis
    /\ IdleRun

RunStep ==
    \/ BuildConfig
    \/ GetOauthToken
    \/ Login
    \/ GetReportPage
    \/ FetchPage
    \/ ParseLevel
    \/ FetchRc
    \/ FetchRcFails
    \/ RcStreamEmpty
    \/ Divide
    \/ MapLevel
    \/ Compare
    \/ GetToken
    \/ Submit
    \/ ExternalEdit

Next == RunStep

Spec == Init /\ [][Next]_vars

NextRuns == RunStep \/ NextRun

SpecRuns == Init /\ [][NextRuns]_vars

-----------------------------------------------------------------------------
(* The classifier on its own: every summary made of at most MaxFragments    *)
(* fragments is classified.                                                 *)

MaxFragments == 4

Fragments ==
    { <<"R","V"," ">>,
      <<"U","n","d","i","d">>,
      <<"T","y","p","o">>,
      <<"x">>,
      <<"/","*">>,
      <<"*","/">>,
      <<"/","*"," ","t","y","p","o"," ","*","/">>,
      <<"/","*"," ","r","v"," ","*","/">> }

FragmentLists == UNION { [1..n -> Fragments] : n \in 0..MaxFragments }

Summaries == { Concat(fs) : fs \in FragmentLists }

InitClassify ==
    /\ pc = "classify"
    /\ edit_summary \in Summaries
    /\ normalized = NoText
    /\ verdict = FALSE
    /\ num_reverts = 0
    /\ rpm = NoRate
    /\ level = 0
    /\ cfg = [sources |-> TRUE, oauth_token |-> TRUE, report_page |-> TRUE]
    /\ wiki = NoPage
    /\ IdleRun

Classify ==
    /\ pc = "classify"
    /\ normalized' = Normalize(edit_summary)
    /\ verdict' = is_revert_of_vandalism(edit_summary)
    /\ pc' = "classified"
    /\ UNCHANGED <<edit_summary, rateVars, runVars>>

NextClassify == Classify

SpecClassify == InitClassify /\ [][NextClassify]_vars

-----------------------------------------------------------------------------
(* The rate and the level on their own: every folded count up to MaxReverts *)
(* is divided and mapped.                                                   *)

MaxReverts == 600

InitLevel ==
    /\ pc = "rate_folded"
    /\ edit_summary = NoText
    /\ normalized = NoText
    /\ verdict = FALSE
    /\ num_reverts \in 0..MaxReverts
    /\ rpm = NoRate
    /\ level = 0
    /\ cfg = [sources |-> TRUE, oauth_token |-> TRUE, report_page |-> TRUE]
    /\ wiki = NoPage
    /\ IdleRun

NextLevel == Divide \/ MapLevel

SpecLevel == InitLevel /\ [][NextLevel]_vars

-----------------------------------------------------------------------------
(* Properties of the program.                                              *)

\* The number of reverts of vandalism among all edits of all responses,
\* counted comment by comment.
RECURSIVE CopiesInPages(_, _)
CopiesInPages(c, pages) ==
    IF pages = <<>> THEN 0 ELSE Head(pages)[c] + CopiesInPages(c, Tail(pages))

RECURSIVE SumOver(_, _)
SumOver(S, pages) ==
    IF S = {} THEN 0
    ELSE LET c == CHOOSE x \in S : TRUE
         IN  CopiesInPages(c, pages) + SumOver(S \ {c}, pages)

TotalReverts(pages) ==
    SumOver({c \in Comments : is_revert_of_vandalism(c)}, pages)

\* f is n / INTERVAL_IN_MINS to within half a unit in the last place.
IsRateOf(f, n) ==
    IF n = 0 THEN f.m = 0
    ELSE /\ f.m >= Pow2(23)
         /\ f.m < Pow2(24)
         /\ f.m * INTERVAL_IN_MINS - n * Pow2(f.e) <= INTERVAL_IN_MINS \div 2
         /\ n * Pow2(f.e) - f.m * INTERVAL_IN_MINS <= INTERVAL_IN_MINS \div 2

\* The level the text holds, as the next run reads it.
LevelIn(text) == ParseU8(LevelCaptures(text))

\* The run has computed its level.
LevelComputed == level # 0

\* The run has parsed the published level.
LevelParsed ==
    \/ pc \in {"estimating", "rate_folded", "rate_done", "level_done", "editing", "have_csrf"}
    \/ (pc = "done" /\ LevelComputed)

\* C1: whenever the freshly computed level equals the level parsed from the
\* fetched page, the run fetches no edit token, submits nothing, leaves the
\* page as it is and ends successfully.
C1_EqualLevelsNoWrite ==
    (LevelComputed /\ curr_level = level) =>
        /\ calls.token = 0
        /\ calls.submit = 0
        /\ ~post.sent
        /\ hist.writes = 0
        /\ pc \in {"level_done", "done"}
        /\ pc = "done" => result = "ok"

C1_Witness ==
    /\ pc = "done"
    /\ result = "ok"
    /\ LevelComputed
    /\ curr_level = level
    /\ calls = [login |-> 1, page |-> 1, rc |-> 2, token |-> 0, submit |-> 0]

\* C2: a run never submits more than once; a run whose fetches (page, recent
\* changes, token) all succeed and whose parsed level differs from the
\* computed one submits exactly once, and the request carries the computed
\* level - in particular when the page holds no level and is read as 0.
C2_DifferentLevelsOneSubmit ==
    /\ calls.submit <= 1
    /\ (LevelParsed /\ LevelCaptures(curr_text) = <<>>) => curr_level = 0
    /\ (pc = "done" /\ LevelComputed /\ curr_level # level /\ result # "FetchError") =>
          /\ calls.submit = 1
          /\ calls.token = 1
          /\ post.sent
          /\ post.text = FormatText(level, rpm)
          /\ post.summary.level = level

C2_Witness ==
    /\ pc = "done"
    /\ LevelCaptures(curr_text) = <<>>
    /\ curr_level = 0
    /\ level \in 1..5
    /\ calls.submit = 1
    /\ post.summary.level = level

\* C3: on the normalised summary, a NOT_VANDALISM keyword makes the verdict
\* false whatever else it holds; a VANDALISM keyword with no NOT_VANDALISM
\* keyword makes it true; neither makes it false.
C3_ClassifierPriority ==
    pc = "classified" =>
        /\ ContainsAny(normalized, NOT_VANDALISM_KEYWORDS) => verdict = FALSE
        /\ (/\ ContainsAny(normalized, VANDALISM_KEYWORDS)
            /\ ~ContainsAny(normalized, NOT_VANDALISM_KEYWORDS)) => verdict = TRUE
        /\ (/\ ~ContainsAny(normalized, VANDALISM_KEYWORDS)
            /\ ~ContainsAny(normalized, NOT_VANDALISM_KEYWORDS)) => verdict = FALSE

C3_Witness ==
    /\ pc = "classified"
    /\ ContainsAny(normalized, NOT_VANDALISM_KEYWORDS)
    /\ ContainsAny(normalized, VANDALISM_KEYWORDS)
    /\ verdict = FALSE

\* Every /* ... */ span removed, leftmost and minimal, left to right.
RECURSIVE RemoveAllSectionHeaders(_)
RemoveAllSectionHeaders(s) ==
    LET i == SectionHeaderStart(s)
    IN  IF i = 0 THEN s
        ELSE SubSeq(s, 1, i - 1) \o
             RemoveAllSectionHeaders(SubSeq(s, SectionHeaderEnd(s, i) + 1, Len(s)))

\* C4: the verdict is the keyword decision on the summary with every
\* /* ... */ span removed, so a keyword inside any span never counts.
C4_EverySpanRemoved ==
    pc = "classified" =>
        verdict = KeywordDecision(to_ascii_lowercase(RemoveAllSectionHeaders(edit_summary)))

\* C5: the level is 5, 4, 3, 2, 1 as the rate is <= 2, <= 4, <= 6, <= 8, > 8,
\* a rate on a breakpoint going to the calmer level; with the 60-minute window
\* the counts 0..120, 121..240, 241..360, 361..480, 481.. give 5, 4, 3, 2, 1.
C5_LevelBoundaries ==
    pc = "level_done" =>
        /\ level \in 1..5
        /\ level = (IF F32Le(rpm, 2) THEN 5
                    ELSE IF F32Le(rpm, 4) THEN 4
                    ELSE IF F32Le(rpm, 6) THEN 3
                    ELSE IF F32Le(rpm, 8) THEN 2 ELSE 1)
        /\ level = (IF num_reverts <= 120 THEN 5
                    ELSE IF num_reverts <= 240 THEN 4
                    ELSE IF num_reverts <= 360 THEN 3
                    ELSE IF num_reverts <= 480 THEN 2 ELSE 1)

C5_Witness ==
    /\ pc = "level_done"
    /\ num_reverts = 480
    /\ rpm = [m |-> 8388608, e |-> 20]
    /\ level = 2

\* C6: the edit carries the revision id the page fetch captured, and an edit
\* the wiki refuses for a stale base revision ends the run in failure.
C6_ConflictEndsInFailure ==
    /\ post.sent => post.baserevid = revid
    /\ (pc = "done" /\ reply.api = "editconflict") => result = "SubmitError"

\* C7: an edit is submitted only after the page fetch and the whole
\* recent-changes fold succeeded in this run; a run that a fetch, a missing
\* field or a failed response ended has submitted nothing and written nothing.
C7_NoWriteWithoutFreshRate ==
    /\ calls.submit > 0 =>
          /\ calls.page = 1
          /\ curr_text # NoText
          /\ ~rc.more
          /\ num_reverts = TotalReverts(rc.pages)
          /\ IsRateOf(rpm, TotalReverts(rc.pages))
          /\ level = rpm_to_level(rpm)
    /\ result \in {"FetchError", "MissingFieldPanic", "ParseLevelPanic"} =>
          /\ calls.submit = 0
          /\ ~post.sent
          /\ hist.writes = 0

C7_Witness ==
    /\ pc = "done"
    /\ result = "FetchError"
    /\ rc.more
    /\ Len(rc.pages) >= 1
    /\ num_reverts > 0
    /\ calls.submit = 0

\* The fold of this run has ended.
FoldDone == pc \in {"rate_folded", "rate_done", "level_done", "editing", "have_csrf"}

\* C8: once the fold has ended, the count is the sum over all responses of
\* their reverts of vandalism, whatever their number and order, and the rate
\* is that count over INTERVAL_IN_MINS; a run that a failed response ended
\* has no rate.
C8_PaginationComplete ==
    /\ (FoldDone \/ (pc = "done" /\ LevelComputed)) =>
          /\ ~rc.more
          /\ num_reverts = TotalReverts(rc.pages)
    /\ (pc \in {"rate_done", "level_done", "editing", "have_csrf"}
          \/ (pc = "done" /\ LevelComputed)) => IsRateOf(rpm, TotalReverts(rc.pages))
    /\ (pc = "done" /\ rc.more) => (rpm = NoRate /\ ~LevelComputed)

C8_Witness ==
    /\ pc = "rate_done"
    /\ Len(rc.pages) = 2
    /\ CountReverts(rc.pages[1]) = 130
    /\ CountReverts(rc.pages[2]) = 250
    /\ num_reverts = 380
    /\ rpm.m > 0

\* C9: a run that ends for a missing oauth_token or report_page has started
\* no network operation.
C9_ConfigErrorBeforeNetwork ==
    result = "ConfigurationError" => calls = NoCalls

\* C10: the text a run writes for a level reads back as that level; while the
\* page stands as the bot wrote it, a run that computes the same level again
\* does not enter the edit branch; and with no external edit the writes are
\* at most one more than the changes of the computed level.
C10_WriteParseRoundTrip ==
    /\ post.sent => LevelIn(post.text) = level
    /\ hist.written # 0 => (wiki.exists /\ LevelIn(wiki.content) = hist.written)
    /\ pc \in {"editing", "have_csrf"} => hist.written # level
    /\ hist.external = 0 => hist.writes <= 1 + hist.changes

C10_Witness ==
    /\ run = 2
    /\ pc = "done"
    /\ result = "ok"
    /\ LevelComputed
    /\ hist.written = level
    /\ LevelIn(curr_text) = level
    /\ calls.submit = 0
    /\ hist.writes = 1
    /\ hist.external = 0

====
